---------------------------- MODULE Spec2Model ----------------------------
(***************************************************************************)
(* A model of the worker supervisor of src/vm_manager.py (class VMManager). *)
(*                                                                         *)
(* State: the slot registry (self.workers: id -> WorkerInfo object), the   *)
(* heap of WorkerInfo objects, the operating-system processes the manager  *)
(* has spawned, the stop flag, and one record per thread of control (the   *)
(* operator's command loop, the monitor threads, the restart threads).     *)
(*                                                                         *)
(* Granularity: CPython switches threads at calls (log/print I/O, Popen,   *)
(* poll, stat, sleep, terminate/wait) and at backward jumps.  A step of    *)
(* the model is a block of a method between two such calls; the blocking   *)
(* calls (readline, wait, sleep, Popen) always separate two steps.  An      *)
(* interpreter that switches between any two instructions is looked at for *)
(* the counter increment of restart_worker (RwLoad, RwStore, SpecLost).     *)
(***************************************************************************)
EXTENDS Integers, Sequences, FiniteSets, TLC

\* ------------------------------------------------------------------ bounds
MaxRst     == 1      \* restart threads ever started by _check_errors
MaxProcs   == 2      \* processes the system lets a run spawn (one more where three race)
MaxCmds    == 3      \* console commands the operator types in a run
MaxChrome  == 5      \* largest argument of a scale command
MaxProjects == 2     \* project codes the scheduler is told about
MaxRetry   == 1      \* failed completions of one task
MaxScene   == 3      \* largest scene number of a prompt list
MaxPrompts == 3      \* longest prompt list given to _split_prompts
MaxArg     == 3      \* largest num_workers given to run_multi_workers
MaxLines   == 2      \* lines one worker process writes to its output
MaxCalls   == 2      \* calls of process_project_complete in a run

\* --------------------------------------------------------- program constants
MAX_ERRORS == 3

NoObj  == 0
NoProc == 0
EXCEL  == 0          \* worker id "excel"; worker id "chrome_k" is k >= 1

WIDs == 0..MaxChrome

\* thread indices: the operator's, one monitor per process, the restart threads
Threads == 1..(2 + MaxProcs + MaxRst)
Procs == 1..(MaxProcs + 1)

VARIABLES
    attached,            \* sys.platform != "win32": output is piped and monitored
    enable_excel,        \* self.enable_excel
    num_chrome_workers,  \* self.num_chrome_workers
    workers,             \* self.workers: worker id -> object (NoObj: not a key)
    obj,                 \* the WorkerInfo objects ever constructed
    procs,               \* the processes ever spawned by Popen
    proc_limit,          \* how many processes the system lets Popen create
    stop_flag,           \* self._stop_flag
    th,                  \* threads: th[1] is the operator's command loop
    cmds,                \* the console commands typed so far (not program state)
    hist,                \* per object: observations about its past (not program state)
    ev,                  \* what the last step did (not program state)
    task_queue,          \* self.task_queue: the PENDING tasks, first in first out
    active_tasks,        \* self.active_tasks: project_code -> its RUNNING task
    stage_done,          \* per project_code, the last stage recorded as completed
    split,               \* run_worker_pic_basic_2.py: one call of _split_prompts
    relay,               \* run_2worker.py: one call of run_multi_workers
    ppc                  \* run_worker_basic2.py: calls of process_project_complete

\* the supervisor's state and the scheduler's
vmVars == <<attached, enable_excel, num_chrome_workers, workers, obj, procs,
            proc_limit, stop_flag, th, cmds, hist, ev>>

schedVars == <<task_queue, active_tasks, stage_done>>

\* what no method of VMManager in src/vm_manager.py reads or writes
scriptVars == <<split, relay, ppc>>

rest == <<schedVars, scriptVars>>

vars == <<vmVars, rest>>

\* ------------------------------------------------------------ data structures
\* WorkerInfo(worker_id, worker_type, worker_num): worker_num = 0 is the excel type.
\* last_output is written by the monitor and read by nothing; the line a monitor
\* records is the line of its "line" event (ev), not a field here.
WorkerInfo(num) ==
    [worker_num |-> num, process |-> NoProc, status |-> "stopped",
     start_time |-> FALSE, error_count |-> 0, restart_count |-> 0]

NewHist == [rec |-> 0, trig |-> 0]

\* one Popen: alive is the state of the process behind the returned handle
\* (what poll() reports and terminate() / kill() act on); chrome: its command
\* line names _run_chrome<N>.py.  Attached (lines 302-309) that process is the
\* worker.  Detached (lines 297-298) it is the shell running
\*   start "<title>" cmd /k "cd /d ... && python <script> <args>"
\* and "start" opens the worker in a window of its own and returns: window
\* says that this window's worker is running.  No statement of the program
\* reaches that process.
\* args: the arguments after the script name (lines 292-295 and 301).  shard:
\* the (index, total) pairs the launch hands to the worker by argument or
\* environment: Popen is given no env= and a chrome worker no argument.
LaunchArgs(isChrome) == IF isChrome THEN <<>> ELSE <<"--loop">>

NewProc(o, isChrome, att) ==
    [alive |-> TRUE, owner |-> o, chrome |-> isChrome, window |-> ~att,
     args |-> LaunchArgs(isChrome), shard |-> {}]

\* ev: the kind of step, the object and process it acted on, its result, the
\* number of restart threads it started, and the error_count it found; line:
\* the line a monitor read and stored in worker.last_output (line 397)
NoEv == [type |-> "none", o |-> NoObj, p |-> NoProc, ok |-> FALSE, n |-> 0, k |-> 0,
         line |-> ""]
Ev(type, o, p, ok, n, k) ==
    [type |-> type, o |-> o, p |-> p, ok |-> ok, n |-> n, k |-> k, line |-> ""]

Thread(kind, pc, wid, ctx) ==
    [kind |-> kind, pc |-> pc, wid |-> wid, w |-> NoObj, m |-> NoObj,
     rp |-> NoProc, ctx |-> ctx, todo |-> <<>>, arg |-> 0]

EndThread(kind) == Thread(kind, "end", 0, "none")

\* a thread that has not been started yet
Free == Thread("free", "free", 0, "none")

\* range(a, b + 1) as a sequence
RECURSIVE Upto(_, _)
Upto(a, b) == IF a > b THEN <<>> ELSE <<a>> \o Upto(a + 1, b)

IsAlive(pr, p) == p # NoProc /\ pr[p].alive

\* threading.Thread(...).start(): the new thread takes the next index
NumThreads(thf) == Cardinality({t \in Threads : thf[t].pc # "free"})
StartThread(thf, rec) == [thf EXCEPT ![NumThreads(thf) + 1] = rec]

\* the objects _init_workers constructs, in construction order
InitObjs(excel, n) ==
    (IF excel THEN <<WorkerInfo(0)>> ELSE <<>>) \o [i \in 1..n |-> WorkerInfo(i)]

InitWorkers(excel, n) ==
    [i \in WIDs |->
        IF i = EXCEL THEN (IF excel THEN 1 ELSE NoObj)
        ELSE IF i <= n THEN (IF excel THEN i + 1 ELSE i)
        ELSE NoObj]

\* list(self.workers.keys()): excel first, then the chrome slots in id order
RECURSIVE KeysFrom(_, _)
KeysFrom(wk, i) ==
    IF i > MaxChrome THEN <<>>
    ELSE (IF wk[i] # NoObj THEN <<i>> ELSE <<>>) \o KeysFrom(wk, i + 1)
Keys(wk) == KeysFrom(wk, 0)


\* ------------------------------------------------- the code's small decisions
\* start_worker: "if worker.process and worker.process.poll() is None"
AlreadyRunningNever(pr, rec) == FALSE

AlreadyRunning(pr, rec) == IsAlive(pr, rec.process)

\* start_worker, after a successful Popen: status, start_time, error_count
StartedInfoKeepsCount(rec) == [rec EXCEPT !.status = "idle", !.start_time = TRUE]

StartedInfo(rec) ==
    [rec EXCEPT !.status = "idle", !.start_time = TRUE, !.error_count = 0]

\* start_worker, "Script not found" and the except branch: status = ERROR
FailedInfoKeepsStatus(rec) == rec

FailedInfo(rec) == [rec EXCEPT !.status = "error"]

\* stop_worker: worker.process = None (when it was set); status = STOPPED
StoppedInfoKeepsHandle(rec) == [rec EXCEPT !.status = "stopped"]

StoppedInfoKeepsStatus(rec) == [rec EXCEPT !.process = NoProc]

StoppedInfo(rec) == [rec EXCEPT !.process = NoProc, !.status = "stopped"]

\* restart_worker: status = RESTARTING; restart_count += 1
RestartingInfoNoCount(rec) == [rec EXCEPT !.status = "restarting"]

RestartingInfo(rec) ==
    [rec EXCEPT !.status = "restarting", !.restart_count = @ + 1]

\* Output lines, by the patterns they match.  Every FATAL_PATTERNS entry is
\* also matched by an ERROR_PATTERNS entry ("Chrome attempt 3/3 failed" by
\* "Chrome attempt \d+/\d+ failed"; the second fatal pattern is listed in both).
Lines == {"fatal", "recov", "other"}
MatchesFatal(line) == line = "fatal"
MatchesError(line) == line \in {"fatal", "recov"}

\* _check_errors: what one line does to error_count, and whether it starts a
\* restart thread.  Result: <<new error_count, restart threads started>>
CheckErrorsFatalCounted(line, count) ==
    IF MatchesError(line)
    THEN <<count + 1, IF count + 1 >= MAX_ERRORS THEN 1 ELSE 0>>
    ELSE <<count, 0>>

CheckErrorsFatalAlsoCounted(line, count) ==
    IF MatchesFatal(line)
    THEN <<count + 1, 1>>
    ELSE IF MatchesError(line)
         THEN <<count + 1, IF count + 1 >= MAX_ERRORS THEN 1 ELSE 0>>
         ELSE <<count, 0>>

CheckErrorsAboveThreshold(line, count) ==
    IF MatchesFatal(line) THEN <<count, 1>>
    ELSE IF MatchesError(line)
         THEN <<count + 1, IF count + 1 > MAX_ERRORS THEN 1 ELSE 0>>
         ELSE <<count, 0>>

CheckErrorsEveryLineCounted(line, count) ==
    IF MatchesFatal(line) THEN <<count, 1>>
    ELSE <<count + 1, IF count + 1 >= MAX_ERRORS THEN 1 ELSE 0>>

CheckErrors(line, count) ==
    IF MatchesFatal(line) THEN <<count, 1>>
    ELSE IF MatchesError(line)
         THEN <<count + 1, IF count + 1 >= MAX_ERRORS THEN 1 ELSE 0>>
         ELSE <<count, 0>>

\* kill_all_chrome.  Attached (non-win32) branch: "pkill -f chrome" signals
\* every process whose command line contains "chrome", which the chrome
\* workers' own command lines (python .../_run_chrome<N>.py) do.  On win32
\* taskkill names the browser images only.
KillAllChrome(pr, att) ==
    IF att
    THEN [p \in DOMAIN pr |->
            IF pr[p].alive /\ pr[p].chrome
            THEN [pr[p] EXCEPT !.alive = FALSE]
            ELSE pr[p]]
    ELSE pr

\* ------------------------------------------------------------- continuations
\* What a thread does when a call returns, up to its next call.  A value
\* St(...) carries the thread record and the shared state the block writes.
St(r, wk, ob, hs, num) == [r |-> r, wk |-> wk, ob |-> ob, hs |-> hs, num |-> num]

OpIdle == Thread("op", "idle", 0, "none")

\* scale_chrome_workers, scale-up loop: construct the next WorkerInfo and call
\* start_worker on it; after the loop, self.num_chrome_workers = num_workers
ScaleUpResumes(s) ==
    IF s.r.todo = <<>>
    THEN [s EXCEPT !.r = OpIdle, !.num = s.r.arg]
    ELSE LET i == Head(s.r.todo)
             old == {j \in DOMAIN s.ob : s.ob[j].worker_num = i}
             o == IF old = {} THEN Len(s.ob) + 1 ELSE CHOOSE j \in old : TRUE
         IN [s EXCEPT !.r = [s.r EXCEPT !.pc = "sw_check", !.wid = i, !.w = NoObj,
                                        !.todo = Tail(s.r.todo)],
                      !.wk = [s.wk EXCEPT ![i] = o],
                      !.ob = IF old = {} THEN Append(s.ob, WorkerInfo(i)) ELSE s.ob,
                      !.hs = IF old = {} THEN Append(s.hs, NewHist) ELSE s.hs]

ScaleUpNext(s) ==
    IF s.r.todo = <<>>
    THEN [s EXCEPT !.r = OpIdle, !.num = s.r.arg]
    ELSE LET i == Head(s.r.todo)
             o == Len(s.ob) + 1
         IN [s EXCEPT !.r = [s.r EXCEPT !.pc = "sw_check", !.wid = i, !.w = NoObj,
                                        !.todo = Tail(s.r.todo)],
                      !.wk = [s.wk EXCEPT ![i] = o],
                      !.ob = Append(s.ob, WorkerInfo(i)),
                      !.hs = Append(s.hs, NewHist)]

\* the caller's next call in a loop over worker ids, or the operator's prompt
NextCall(s, pc) ==
    IF s.r.todo = <<>>
    THEN [s EXCEPT !.r = OpIdle]
    ELSE [s EXCEPT !.r = [s.r EXCEPT !.pc = pc, !.wid = Head(s.r.todo), !.w = NoObj,
                                     !.todo = Tail(s.r.todo)]]

\* restart_worker returns (to the console loop, or the thread's target returns)
AfterRestart(s) ==
    IF s.r.kind = "op" THEN NextCall(s, "rw_entry")
    ELSE [s EXCEPT !.r = EndThread(s.r.kind)]

\* start_worker returns to restart_worker, scale_chrome_workers or start_all
AfterStart(s) ==
    CASE s.r.ctx = "restart"   -> AfterRestart(s)
      [] s.r.ctx = "scale_up"  -> ScaleUpNext(s)
      [] OTHER                 -> NextCall(s, "sw_check")

\* stop_worker returns to restart_worker, scale_chrome_workers or stop_all
AfterStopKeepsSlot(s) ==
    CASE s.r.ctx = "restart" -> [s EXCEPT !.r.pc = "rw_kill", !.r.w = NoObj]
      [] s.r.ctx = "scale_down" ->
            IF s.r.todo = <<>>
            THEN [s EXCEPT !.r = OpIdle, !.num = s.r.arg]
            ELSE NextCall(s, "st_term")
      [] OTHER ->
            IF s.r.todo = <<>>
            THEN [s EXCEPT !.r.pc = "kill", !.r.w = NoObj, !.r.wid = 0]
            ELSE NextCall(s, "st_term")

AfterStop(s) ==
    CASE s.r.ctx = "restart" -> [s EXCEPT !.r.pc = "rw_kill", !.r.w = NoObj]
      [] s.r.ctx = "scale_down" ->
            IF s.wk[s.r.wid] = NoObj
            THEN [s EXCEPT !.r = OpIdle]       \* del raises KeyError: "Usage: ..."
            ELSE LET d == [s EXCEPT !.wk = [s.wk EXCEPT ![s.r.wid] = NoObj]]
                 IN IF s.r.todo = <<>>
                    THEN [d EXCEPT !.r = OpIdle, !.num = s.r.arg]
                    ELSE NextCall(d, "st_term")
      [] OTHER ->
            IF s.r.todo = <<>>
            THEN [s EXCEPT !.r.pc = "kill", !.r.w = NoObj, !.r.wid = 0]
            ELSE NextCall(s, "st_term")

Cur(t) == St(th[t], workers, obj, hist, num_chrome_workers)

Commit(t, s) ==
    /\ th' = [th EXCEPT ![t] = s.r]
    /\ workers' = s.wk
    /\ obj' = s.ob
    /\ hist' = s.hs
    /\ num_chrome_workers' = s.num

\* ------------------------------------------------------------- start_worker
\* lines 267-278: lookup, the already-running test, status = STARTING.
\* In restart_worker the call follows time.sleep(RESTART_DELAY) (line 373).
SwCheck(t) ==
    LET r == th[t]
        o == workers[r.wid]
    IN /\ r.pc \in {"sw_check", "rw_sleep"}
       /\ IF o = NoObj
          THEN /\ Commit(t, AfterStart(Cur(t)))
               /\ ev' = Ev("start_nokey", NoObj, NoProc, FALSE, 0, 0)
          ELSE IF AlreadyRunning(procs, obj[o])
          THEN /\ Commit(t, AfterStart(Cur(t)))
               /\ ev' = Ev("start_already", o, obj[o].process, TRUE, 0, obj[o].error_count)
          ELSE /\ Commit(t, St([r EXCEPT !.pc = "sw_popen", !.w = o], workers,
                               [obj EXCEPT ![o].status = "starting"],
                               hist, num_chrome_workers))
               /\ ev' = Ev("starting", o, obj[o].process, TRUE, 0, 0)
       /\ UNCHANGED <<rest, attached, enable_excel, proc_limit, procs, stop_flag, cmds>>

\* lines 279-318 and 327-330: script.exists() and Popen and, attached, the
\* monitor thread; or "Script not found" / the except branch (Popen raises,
\* as it does when the system has no process left to give), which both set
\* status = ERROR and return False
SwPopen(t) ==
    LET r == th[t]
        o == r.w
        p == Len(procs) + 1
    IN /\ r.pc = "sw_popen"
       /\ \/ /\ Len(procs) < proc_limit
             /\ procs' = Append(procs, NewProc(o, obj[o].worker_num # 0, attached))
             /\ obj' = [obj EXCEPT ![o].process = p]
             /\ th' = LET th1 == [th EXCEPT ![t].pc = "sw_idle"]
                      IN IF attached
                         THEN StartThread(th1, Thread("mon", "mon_start", r.wid, "restart"))
                         ELSE th1
             /\ ev' = Ev("spawn", o, p, TRUE, 0, 0)
             /\ UNCHANGED <<workers, hist, num_chrome_workers>>
          \/ /\ Commit(t, AfterStart(St(r, workers,
                                        [obj EXCEPT ![o] = FailedInfo(obj[o])],
                                        hist, num_chrome_workers)))
             /\ ev' = Ev("start_fail", o, NoProc, FALSE, 0, 0)
             /\ UNCHANGED procs
       /\ UNCHANGED <<rest, attached, enable_excel, proc_limit, stop_flag, cmds>>

\* lines 320-325: status = IDLE, start_time, error_count = 0, return True
SwIdle(t) ==
    LET r == th[t]
        o == r.w
    IN /\ r.pc = "sw_idle"
       /\ Commit(t, AfterStart(St(r, workers,
                                  [obj EXCEPT ![o] = StartedInfo(obj[o])],
                                  [hist EXCEPT ![o].rec = 0, ![o].trig = 0],
                                  num_chrome_workers)))
       /\ ev' = Ev("start_ok", o, obj[o].process, TRUE, 0, obj[o].error_count)
       /\ UNCHANGED <<rest, attached, enable_excel, proc_limit, procs, stop_flag, cmds>>

\* -------------------------------------------------------------- stop_worker
\* lines 334-348: lookup; with a handle, terminate() and wait(timeout=5), and
\* kill() when either raises.  Without one, lines 351-353.
StTerm(t) ==
    LET r == th[t]
        o == workers[r.wid]
        p == obj[o].process
    IN /\ r.pc = "st_term"
       /\ IF o = NoObj
          THEN /\ Commit(t, AfterStop(Cur(t)))
               /\ ev' = Ev("stop_nokey", NoObj, NoProc, FALSE, 0, 0)
               /\ UNCHANGED procs
          ELSE IF p = NoProc
          THEN /\ Commit(t, AfterStop(St(r, workers,
                                         [obj EXCEPT ![o] = StoppedInfo(obj[o])],
                                         hist, num_chrome_workers)))
               /\ ev' = Ev("stop_none", o, NoProc, TRUE, 0,
                           IF obj[o].status = "stopped" THEN 1 ELSE 0)
               /\ UNCHANGED procs
          ELSE /\ Commit(t, St([r EXCEPT !.pc = "st_clear", !.w = o], workers, obj,
                               hist, num_chrome_workers))
               /\ procs' = IF procs[p].alive
                           THEN [procs EXCEPT ![p].alive = FALSE]
                           ELSE procs
               /\ ev' = Ev("terminate", o, p, procs[p].alive, 0, 0)
       /\ UNCHANGED <<rest, attached, enable_excel, proc_limit, stop_flag, cmds>>

\* lines 341-348 by the outcome of each call: terminate() raises or not (tr),
\* wait(timeout=5) raises TimeoutExpired or returns (to; not reached when
\* terminate raised), kill() raises or not (kr).  kill() is called in the
\* except branch only; the process is left running when kill() raised.
StopOutcomeAlwaysKills(tr, to, kr) ==
    [kill |-> TRUE, running |-> kr]

StopOutcome(tr, to, kr) ==
    [kill |-> tr \/ to, running |-> (tr \/ to) /\ kr]

\* lines 339-348 with every outcome of the three calls: when terminate()
\* raises or the wait times out, the bare "except:" runs kill(), whose own
\* exception is passed over
StTermOutcomes(t) ==
    LET r == th[t]
        o == workers[r.wid]
        p == obj[o].process
    IN /\ r.pc = "st_term"
       /\ o # NoObj
       /\ p # NoProc
       /\ procs[p].alive
       /\ \E tr, to, kr \in BOOLEAN :
            LET out == StopOutcome(tr, to, kr)
            IN /\ tr => ~to
               /\ Commit(t, St([r EXCEPT !.pc = "st_clear", !.w = o], workers, obj,
                               hist, num_chrome_workers))
               /\ procs' = IF out.running THEN procs
                           ELSE [procs EXCEPT ![p].alive = FALSE]
               /\ ev' = Ev("terminate", o, p, ~out.running,
                           IF out.kill THEN 1 ELSE 0,
                           IF tr \/ to THEN 1 ELSE 0)
       /\ UNCHANGED <<rest, attached, enable_excel, proc_limit, stop_flag, cmds>>

\* lines 349-353: worker.process = None; status = STOPPED; return True
StClear(t) ==
    LET r == th[t]
        o == r.w
    IN /\ r.pc = "st_clear"
       /\ Commit(t, AfterStop(St(r, workers,
                                 [obj EXCEPT ![o] = StoppedInfo(obj[o])],
                                 hist, num_chrome_workers)))
       /\ ev' = Ev("stop_ret", o, obj[o].process, TRUE, 0, 0)
       /\ UNCHANGED <<rest, attached, enable_excel, proc_limit, procs, stop_flag, cmds>>

\* ----------------------------------------------------------- restart_worker
\* lines 357-367: lookup, status = RESTARTING, restart_count += 1.  A monitor
\* calls it after time.sleep(RESTART_DELAY) (lines 391-392).
RwEntry(t) ==
    LET r == th[t]
        o == workers[r.wid]
    IN /\ r.pc \in {"rw_entry", "mon_sleep"}
       /\ IF o = NoObj
          THEN /\ Commit(t, AfterRestart(Cur(t)))
               /\ ev' = Ev("restart_nokey", NoObj, NoProc, FALSE, 0, 0)
          ELSE /\ Commit(t, St([r EXCEPT !.pc = "st_term"], workers,
                               [obj EXCEPT ![o] = RestartingInfo(obj[o])],
                               hist, num_chrome_workers))
               /\ ev' = Ev("restart", o, obj[o].process, TRUE, 0, 0)
       /\ UNCHANGED <<rest, attached, enable_excel, proc_limit, procs, stop_flag, cmds>>

\* restart_worker at the granularity of the interpreter's instructions:
\* "worker.restart_count += 1" loads the attribute, adds, and stores it, and
\* an interpreter that switches threads between instructions (CPython before
\* 3.10, or a build without the global lock) can run another thread between
\* the load and the store.  RwLoad: lines 357-361 and the load of line 362.
RwLoad(t) ==
    LET r == th[t]
        o == workers[r.wid]
    IN /\ r.pc \in {"rw_entry", "mon_sleep"}
       /\ IF o = NoObj
          THEN /\ Commit(t, AfterRestart(Cur(t)))
               /\ ev' = Ev("restart_nokey", NoObj, NoProc, FALSE, 0, 0)
          ELSE /\ Commit(t, St([r EXCEPT !.pc = "rw_store", !.w = o,
                                         !.arg = obj[o].restart_count],
                               workers, [obj EXCEPT ![o].status = "restarting"],
                               hist, num_chrome_workers))
               /\ ev' = Ev("restart_load", o, obj[o].process, TRUE, 0,
                           obj[o].restart_count)
       /\ UNCHANGED <<rest, attached, enable_excel, proc_limit, procs, stop_flag, cmds>>

\* the store of line 362: the loaded value plus one
RwStore(t) ==
    LET r == th[t]
        o == r.w
    IN /\ r.pc = "rw_store"
       /\ Commit(t, St([r EXCEPT !.pc = "st_term", !.w = NoObj, !.arg = 0], workers,
                       [obj EXCEPT ![o].restart_count = r.arg + 1],
                       hist, num_chrome_workers))
       /\ ev' = Ev("restart_store", o, obj[o].process, TRUE, 0, obj[o].restart_count)
       /\ UNCHANGED <<rest, attached, enable_excel, proc_limit, procs, stop_flag, cmds>>

\* line 370: "if kill_chrome and worker.worker_type == 'chrome'"; every caller
\* leaves kill_chrome at its default, True
KillsSiblingsAlways(wid) == TRUE

KillsSiblings(wid) == wid # EXCEL

\* lines 369-371: kill_all_chrome() for a chrome worker
RwKill(t) ==
    LET r == th[t]
    IN /\ r.pc = "rw_kill"
       /\ th' = [th EXCEPT ![t].pc = "rw_sleep"]
       /\ procs' = IF KillsSiblings(r.wid) THEN KillAllChrome(procs, attached) ELSE procs
       /\ ev' = Ev("kill_chrome", NoObj, NoProc, KillsSiblings(r.wid), 0, 0)
       /\ UNCHANGED <<rest, attached, enable_excel, proc_limit, num_chrome_workers, workers, obj,
                      stop_flag, cmds, hist>>

\* ---------------------------------------------------------- _monitor_worker
\* the restart threads started so far (a finished thread keeps its kind)
NumRst == Cardinality({t \in Threads : th[t].kind = "rst"})

\* line 381, the loop condition, and the readline the loop then blocks in
LoopCheck(r, ob, flag) ==
    IF flag \/ ob[r.m].process = NoProc
    THEN EndThread("mon")
    ELSE [r EXCEPT !.pc = "mon_read", !.rp = ob[r.m].process]

\* line 379: worker = self.workers[worker_id] (KeyError ends the thread)
MonStart(t) ==
    LET r == th[t]
        o == workers[r.wid]
    IN /\ r.pc = "mon_start"
       /\ th' = [th EXCEPT ![t] = IF o = NoObj THEN EndThread("mon")
                                  ELSE LoopCheck([r EXCEPT !.m = o], obj, stop_flag)]
       /\ ev' = NoEv
       /\ UNCHANGED <<rest, attached, enable_excel, proc_limit, num_chrome_workers, workers, obj,
                      procs, stop_flag, cmds, hist>>

\* lines 383, 396-401 and _check_errors (407-435): one line of output
MonLine(t) ==
    LET r == th[t]
        o == workers[r.wid]
    IN /\ r.pc = "mon_read"
       /\ procs[r.rp].alive
       /\ \E line \in Lines :
            LET ob1 == obj
            IN IF o = NoObj
               THEN \* _check_errors raises KeyError: "Monitor error", break
                    /\ obj' = ob1
                    /\ th' = [th EXCEPT ![t] = EndThread("mon")]
                    /\ ev' = [Ev("line", NoObj, r.rp, MatchesFatal(line), 0, 0)
                                EXCEPT !.line = line]
                    /\ UNCHANGED hist
               ELSE LET ce == CheckErrors(line, ob1[o].error_count)
                        ob2 == [ob1 EXCEPT ![o].error_count = ce[1]]
                        th1 == [th EXCEPT ![t] = LoopCheck(r, ob2, stop_flag)]
                    IN /\ ce[2] = 1 => NumRst < MaxRst
                       /\ obj' = ob2
                       /\ th' = IF ce[2] = 1
                                THEN StartThread(th1, Thread("rst", "rw_entry", r.wid, "restart"))
                                ELSE th1
                       /\ hist' = IF MatchesFatal(line) \/ ~MatchesError(line)
                                  THEN hist
                                  ELSE [hist EXCEPT ![o].rec = @ + 1,
                                                    ![o].trig = @ + ce[2]]
                       /\ ev' = [Ev("line", o, r.rp, MatchesFatal(line), ce[2],
                                    obj[o].error_count) EXCEPT !.line = line]
       /\ UNCHANGED <<rest, attached, enable_excel, proc_limit, num_chrome_workers, workers, procs,
                      stop_flag, cmds>>

\* lines 389-393: "if not self._stop_flag:" sleep and restart; break
AfterExit(r, flag) ==
    IF flag THEN EndThread("mon") ELSE [r EXCEPT !.pc = "mon_sleep"]

\* lines 384-394: readline returned "" (end of the process's output)
MonEof(t) ==
    LET r == th[t]
        q == obj[r.m].process
    IN /\ r.pc = "mon_read"
       /\ ~procs[r.rp].alive
       /\ IF q = NoProc
          THEN \* worker.process.poll() raises AttributeError: break
               /\ th' = [th EXCEPT ![t] = EndThread("mon")]
               /\ ev' = NoEv
               /\ UNCHANGED obj
          ELSE IF ~procs[q].alive
          THEN /\ obj' = [obj EXCEPT ![r.m].status = "stopped"]
               /\ th' = [th EXCEPT ![t] = AfterExit(r, stop_flag)]
               /\ ev' = Ev("exit_seen", r.m, q, ~stop_flag, 0, 0)
          ELSE /\ th' = [th EXCEPT ![t] = LoopCheck(r, obj, stop_flag)]
               /\ ev' = NoEv
               /\ UNCHANGED obj
       /\ UNCHANGED <<rest, attached, enable_excel, proc_limit, num_chrome_workers, workers, procs,
                      stop_flag, cmds, hist>>

\* ------------------------------------------------------------ the environment
\* a worker process terminates on its own
ProcExit(p) ==
    /\ p \in DOMAIN procs
    /\ procs[p].alive
    /\ procs' = [procs EXCEPT ![p].alive = FALSE]
    /\ ev' = Ev("exit", procs[p].owner, p, TRUE, 0, 0)
    /\ UNCHANGED <<rest, attached, enable_excel, proc_limit, num_chrome_workers, workers, obj,
                   stop_flag, th, cmds, hist>>

\* ------------------------------------------------- the operator's command loop
\* kill_all_chrome() called by start_all, stop_all and the "kill" command
StartList == (IF enable_excel THEN <<EXCEL>> ELSE <<>>) \o Upto(1, num_chrome_workers)

Kill(t) ==
    LET r == th[t]
    IN /\ r.pc = "kill"
       /\ procs' = KillAllChrome(procs, attached)
       /\ th' = [th EXCEPT ![t] =
                    CASE r.ctx = "start_all" ->
                            NextCall(St([r EXCEPT !.todo = StartList], workers, obj,
                                        hist, num_chrome_workers), "sw_check").r
                      [] r.ctx = "stop_all" -> Thread("op", "done", 0, "none")
                      [] OTHER -> OpIdle]
       /\ ev' = Ev("kill_chrome", NoObj, NoProc, TRUE, 0, 0)
       /\ UNCHANGED <<rest, attached, enable_excel, proc_limit, num_chrome_workers, workers, obj,
                      stop_flag, cmds, hist>>

AtPromptAfterStop == th[1].pc \in {"idle", "done"} /\ Len(cmds) < MaxCmds

AtPrompt == th[1].pc = "idle" /\ Len(cmds) < MaxCmds

\* a typed command, its argument, and the number of WorkerInfo objects
\* constructed and the value of num_chrome_workers when it was typed
Cmd(c, n) == [c |-> c, n |-> n, heap |-> Len(obj), cur |-> num_chrome_workers]

\* "restart": for wid in list(self.workers.keys()): self.restart_worker(wid)
CmdRestartAll ==
    /\ AtPrompt
    /\ cmds' = Append(cmds, Cmd("restart", 0))
    /\ th' = [th EXCEPT ![1] =
                NextCall(St([Thread("op", "idle", 0, "restart") EXCEPT
                                 !.todo = Keys(workers)],
                            workers, obj, hist, num_chrome_workers), "rw_entry").r]
    /\ ev' = Ev("cmd", NoObj, NoProc, TRUE, 0, 0)
    /\ UNCHANGED <<rest, attached, enable_excel, proc_limit, num_chrome_workers, workers, obj, procs,
                   stop_flag, hist>>

\* "restart chrome <k>" and "restart excel" (k = EXCEL)
CmdRestartOne(k) ==
    /\ AtPrompt
    /\ cmds' = Append(cmds, Cmd("restart_one", k))
    /\ th' = [th EXCEPT ![1] = Thread("op", "rw_entry", k, "restart")]
    /\ ev' = Ev("cmd", NoObj, NoProc, TRUE, 0, 0)
    /\ UNCHANGED <<rest, attached, enable_excel, proc_limit, num_chrome_workers, workers, obj, procs,
                   stop_flag, hist>>

\* "kill"
CmdKill ==
    /\ AtPrompt
    /\ cmds' = Append(cmds, Cmd("kill", 0))
    /\ th' = [th EXCEPT ![1] = Thread("op", "kill", 0, "cmd_kill")]
    /\ ev' = Ev("cmd", NoObj, NoProc, TRUE, 0, 0)
    /\ UNCHANGED <<rest, attached, enable_excel, proc_limit, num_chrome_workers, workers, obj, procs,
                   stop_flag, hist>>

\* line 605: the range of a "scale" argument
AdmissibleFromZero(num) == 0 <= num /\ num <= 10

Admissible(num) == 1 <= num /\ num <= 10

\* "scale <n>" with 1 <= n <= 10: scale_chrome_workers(n) up to its first call
CmdScale(n) ==
    LET cur == num_chrome_workers
        r0  == [Thread("op", "idle", 0, "none") EXCEPT !.arg = n]
    IN /\ AtPrompt
       /\ Admissible(n)
       /\ cmds' = Append(cmds, Cmd("scale", n))
       /\ Commit(1,
            IF n > cur
            THEN ScaleUpNext(St([r0 EXCEPT !.ctx = "scale_up", !.todo = Upto(cur + 1, n)],
                                workers, obj, hist, num_chrome_workers))
            ELSE IF n < cur
            THEN NextCall(St([r0 EXCEPT !.ctx = "scale_down", !.todo = Upto(n + 1, cur)],
                             workers, obj, hist, num_chrome_workers), "st_term")
            ELSE St(OpIdle, workers, obj, hist, n))
       /\ ev' = Ev("cmd", NoObj, NoProc, TRUE, 0, 0)
       /\ UNCHANGED <<rest, attached, enable_excel, proc_limit, procs, stop_flag>>

\* the loop is left by "break" (c is the word typed: "quit", "exit" or "q";
\* "eof" for EOFError at the prompt) and the "finally" clause runs stop_all()
\* (lines 488-493)
CmdEnd(c) ==
    LET r0 == [Thread("op", "idle", 0, "stop_all") EXCEPT !.todo = Keys(workers)]
    IN /\ AtPrompt
       /\ cmds' = Append(cmds, Cmd(c, 0))
       /\ stop_flag' = TRUE
       /\ th' = [th EXCEPT ![1] =
                    IF r0.todo = <<>> THEN [r0 EXCEPT !.pc = "kill"]
                    ELSE NextCall(St(r0, workers, obj, hist, num_chrome_workers),
                                  "st_term").r]
       /\ ev' = Ev("cmd", NoObj, NoProc, TRUE, 0, 0)
       /\ UNCHANGED <<rest, attached, enable_excel, proc_limit, num_chrome_workers, workers, obj, procs,
                      hist>>

CmdQuit == CmdEnd("quit")

\* line 620: input() raises EOFError
CmdEof == CmdEnd("eof")

\* line 622: Ctrl-C at the prompt prints "Use 'quit' to exit"
CmdInterrupt ==
    /\ AtPrompt
    /\ cmds' = Append(cmds, Cmd("interrupt", 0))
    /\ ev' = Ev("cmd", NoObj, NoProc, TRUE, 0, 0)
    /\ UNCHANGED <<rest, attached, enable_excel, proc_limit, num_chrome_workers, workers, obj, procs,
                   stop_flag, th, hist>>

\* A line as typed, after strip().lower(): verb is the line without its last
\* word when it has more than one word (the whole line otherwise), kind is
\* "none" for a one-word line, "int" when int() accepts the last word (n is
\* its value) and "word" when int() raises
Typed(verb, kind, n) == [verb |-> verb, kind |-> kind, n |-> n]

\* the if/elif chain of lines 579-618: the branch a line takes
BranchElseQuits(line) ==
    IF line.verb = "" THEN "empty"
    ELSE IF line.verb = "status" /\ line.kind = "none" THEN "status"
    ELSE IF line.verb = "restart" /\ line.kind = "none" THEN "restart"
    ELSE IF line.verb = "kill" /\ line.kind = "none" THEN "kill"
    ELSE IF line.verb = "scale" /\ line.kind # "none"
         THEN IF line.kind # "int" THEN "usage"
              ELSE IF Admissible(line.n) THEN "scale" ELSE "range"
    ELSE "quit"

Branch(line) ==
    IF line.verb = "" THEN "empty"
    ELSE IF line.verb = "status" /\ line.kind = "none" THEN "status"
    ELSE IF line.verb = "restart" /\ line.kind = "none" THEN "restart"
    ELSE IF line.verb = "kill" /\ line.kind = "none" THEN "kill"
    ELSE IF line.verb = "scale" /\ line.kind # "none"
         THEN IF line.kind # "int" THEN "usage"
              ELSE IF Admissible(line.n) THEN "scale" ELSE "range"
    ELSE IF line.verb \in {"quit", "exit", "q"} /\ line.kind = "none" THEN "quit"
    ELSE "unknown"

\* the branches that only print: "continue" on an empty line, get_status(),
\* "Scale 1-10 Chrome workers", "Usage: scale <number>", "Unknown: ..."
CmdPrints(line) ==
    /\ AtPrompt
    /\ cmds' = Append(cmds, Cmd(IF Branch(line) = "unknown" /\ line.kind # "none"
                                THEN line.verb \o " ..." ELSE line.verb, line.n))
    /\ ev' = Ev("cmd", NoObj, NoProc, TRUE, 0, 0)
    /\ UNCHANGED <<rest, attached, enable_excel, proc_limit, num_chrome_workers, workers, obj, procs,
                   stop_flag, th, hist>>

\* one line read by input() and dispatched
CmdLine(line) ==
    LET b == Branch(line)
    IN \/ b = "restart" /\ CmdRestartAll
       \/ b = "kill" /\ CmdKill
       \/ b = "scale" /\ CmdScale(line.n)
       \/ b = "quit" /\ CmdEnd(line.verb)
       \/ b \in {"empty", "status", "usage", "range", "unknown"} /\ CmdPrints(line)

\* ---------------------------------------------------------------- scheduler
\* TaskType (lines 57-60) in pipeline order, TaskStatus (63-67), Task (104-116).
\* vm_manager.py declares the containers (lines 151-154) and no method that
\* uses them: enqueue, claim and complete are written from the specification
\* of the scheduler.
Projects == 1..MaxProjects

TaskTypes == <<"excel", "image", "video">>

StageOf(task_type) == CHOOSE i \in 1..Len(TaskTypes) : TaskTypes[i] = task_type

NoTask == [project_code |-> 0, task_type |-> "none", status |-> "none", retry_count |-> 0]

TaskRunningByDefault(project_code, task_type) ==
    [project_code |-> project_code, task_type |-> task_type, status |-> "running",
     retry_count |-> 0]

Task(project_code, task_type) ==
    [project_code |-> project_code, task_type |-> task_type, status |-> "pending",
     retry_count |-> 0]

SchedInit ==
    /\ task_queue = <<>>
    /\ active_tasks = [p \in Projects |-> NoTask]
    /\ stage_done = [p \in Projects |-> 0]

\* the worker kind a stage runs on: the excel stage on the one excel worker,
\* the image and video stages on the chrome workers
KindOf(task_type) == IF task_type = "excel" THEN "excel" ELSE "chrome"

ActiveSet(active) == {active[p] : p \in Projects} \ {NoTask}

Exists(queue, active, project_code, task_type) ==
    \/ \E i \in 1..Len(queue) : /\ queue[i].project_code = project_code
                                 /\ queue[i].task_type = task_type
    \/ active[project_code].task_type = task_type

\* enqueue(projectCode, stage): a PENDING task at the end of the queue; no-op
\* when a task for (projectCode, stage) exists or the stage is not after the
\* project's recorded completed stage
Enqueued(queue, active, done, project_code, task_type) ==
    IF \/ Exists(queue, active, project_code, task_type)
       \/ StageOf(task_type) <= done[project_code]
    THEN queue
    ELSE Append(queue, Task(project_code, task_type))

Enqueue(project_code, task_type) ==
    /\ task_queue' = Enqueued(task_queue, active_tasks, stage_done, project_code, task_type)
    /\ UNCHANGED <<active_tasks, stage_done, vmVars, scriptVars>>

\* claim(kind): a PENDING task is eligible when its stage runs on the kind,
\* its project has no RUNNING task and, for the excel kind, no excel task is
\* RUNNING
EligibleAnyProject(active, task, kind) ==
    /\ KindOf(task.task_type) = kind
    /\ kind = "excel" => \A a \in ActiveSet(active) : a.task_type # "excel"

Eligible(active, task, kind) ==
    /\ KindOf(task.task_type) = kind
    /\ active[task.project_code] = NoTask
    /\ kind = "excel" => \A a \in ActiveSet(active) : a.task_type # "excel"

\* the queue without its i-th element
Without(queue, i) == SubSeq(queue, 1, i - 1) \o SubSeq(queue, i + 1, Len(queue))

\* the first eligible task in insertion order becomes RUNNING; no eligible
\* task: nothing is returned and nothing changes
Claim(kind) ==
    LET el == {i \in 1..Len(task_queue) : Eligible(active_tasks, task_queue[i], kind)}
    IN /\ el # {}
       /\ LET i == CHOOSE j \in el : \A k \in el : j <= k
              t == task_queue[i]
          IN /\ task_queue' = Without(task_queue, i)
             /\ active_tasks' = [active_tasks EXCEPT ![t.project_code] =
                                    [t EXCEPT !.status = "running"]]
       /\ UNCHANGED <<stage_done, vmVars, scriptVars>>

\* complete(task, success) on a RUNNING task.  Success: COMPLETED, the stage
\* is recorded and the next stage, if any, is enqueued.  Failure: FAILED,
\* retry_count + 1, and the task is enqueued again as PENDING.
Complete(project_code, success) ==
    LET t == active_tasks[project_code]
        act == [active_tasks EXCEPT ![project_code] = NoTask]
        s == StageOf(t.task_type)
    IN /\ t # NoTask
       /\ IF success
          THEN LET done == [stage_done EXCEPT ![project_code] = s]
               IN /\ stage_done' = done
                  /\ active_tasks' = act
                  /\ task_queue' = IF s < Len(TaskTypes)
                                   THEN Enqueued(task_queue, act, done, project_code,
                                                 TaskTypes[s + 1])
                                   ELSE task_queue
          ELSE /\ t.retry_count < MaxRetry
               /\ active_tasks' = act
               /\ task_queue' = Append(task_queue,
                                       [t EXCEPT !.status = "pending",
                                                 !.retry_count = @ + 1])
               /\ UNCHANGED stage_done
       /\ UNCHANGED <<vmVars, scriptVars>>

\* ------------------------------------------- run_worker_pic_basic_2.py
\* DualChromeImageGenerator._split_prompts (lines 145-180).  A prompt is its
\* id: "nv<n>", "loc<n>" or a scene "s<nnn>" (three digits, so the order of
\* the id strings is the order of the numbers).
Prompt(kind, num) == [kind |-> kind, num |-> num]

PromptIds == {Prompt("nv", 1), Prompt("loc", 1)} \cup {Prompt("s", n) : n \in 1..MaxScene}

\* lines 158-165: the prompts of seq that the test puts into one list
RECURSIVE Select(_, _)
Select(seq, kind) ==
    IF seq = <<>> THEN <<>>
    ELSE (IF Head(seq).kind = kind THEN <<Head(seq)>> ELSE <<>>) \o Select(Tail(seq), kind)

\* line 168: scenes.sort(key=id), a stable sort; Insert puts p after the
\* elements that do not come after it
RECURSIVE Insert(_, _)
Insert(sorted, p) ==
    IF sorted = <<>> THEN <<p>>
    ELSE IF Head(sorted).num <= p.num
         THEN <<Head(sorted)>> \o Insert(Tail(sorted), p)
         ELSE <<p>> \o sorted

RECURSIVE SortById(_)
SortById(seq) ==
    IF seq = <<>> THEN <<>>
    ELSE Insert(SortById(SubSeq(seq, 1, Len(seq) - 1)), seq[Len(seq)])

\* lines 171-172: seq[start::2] (positions from 0)
RECURSIVE EverySecond(_, _)
EverySecond(seq, start) ==
    IF Len(seq) <= start THEN <<>>
    ELSE <<seq[start + 1]>> \o EverySecond(SubSeq(seq, start + 3, Len(seq)), 0)

\* lines 174-175 and 180: (chrome1_prompts, chrome2_prompts)
SplitPrompts(all_prompts) ==
    LET scenes == SortById(Select(all_prompts, "s"))
    IN <<Select(all_prompts, "nv") \o EverySecond(scenes, 0),
         Select(all_prompts, "loc") \o EverySecond(scenes, 1)>>

NoSplit == [pc |-> "none", all_prompts |-> <<>>, chrome1 |-> <<>>, chrome2 |-> <<>>]

\* the prompt lists get_prompts_from_excel can hand over: distinct ids
PromptLists ==
    {seq \in UNION {[1..n -> PromptIds] : n \in 0..MaxPrompts} :
        \A i, j \in DOMAIN seq : seq[i] = seq[j] => i = j}

\* line 292: chrome1_prompts, chrome2_prompts = self._split_prompts(all_prompts)
SplitCall ==
    /\ split.pc = "call"
    /\ split' = [pc |-> "done", all_prompts |-> split.all_prompts,
                 chrome1 |-> SplitPrompts(split.all_prompts)[1],
                 chrome2 |-> SplitPrompts(split.all_prompts)[2]]
    /\ UNCHANGED <<vmVars, schedVars, relay, ppc>>

\* ------------------------------------------------ run_2worker.py: the relay
\* line 33: num_workers = max(2, min(5, num_workers))
ClampWorkers(num_workers) ==
    LET m == IF num_workers < 5 THEN num_workers ELSE 5
    IN IF m > 2 THEN m ELSE 2

\* a worker process as run_multi_workers holds it (lines 68-76): alive until
\* it exits; pipe: the lines it has written and the parent has not read;
\* written: how many lines it has written.  Entry i of processes carries the
\* label "[C<i>]".
WorkerProc == [alive |-> TRUE, pipe |-> <<>>, written |-> 0]

NoRelay == [pc |-> "off", num_workers |-> 0, processes |-> <<>>, i |-> 0, out |-> <<>>]

\* lines 53-81: one round of the spawn loop (Popen, append, sleep)
RelaySpawn ==
    /\ relay.pc = "spawn"
    /\ relay' = [relay EXCEPT
                    !.processes = Append(@, WorkerProc),
                    !.pc = IF Len(relay.processes) + 1 = relay.num_workers
                           THEN "check" ELSE "spawn"]
    /\ UNCHANGED <<vmVars, schedVars, split, ppc>>

\* line 89: all(proc.poll() is not None for proc, _ in processes)
AllDone(processes) == \A i \in DOMAIN processes : ~processes[i].alive

\* lines 88-91: the head of the read loop; break when every process has exited
RelayCheck ==
    /\ relay.pc = "check"
    /\ relay' = [relay EXCEPT !.pc = IF AllDone(relay.processes) THEN "ret" ELSE "read",
                              !.i = 1]
    /\ UNCHANGED <<vmVars, schedVars, split, ppc>>

\* line 95: "proc.poll() is None or proc.stdout"; proc.stdout is the pipe's
\* file object, which is true whether or not the process has exited
WantsRead(proc) == proc.alive \/ TRUE

\* line 97: readline returns a line when one is in the pipe, '' at end of
\* output (process gone, pipe empty), and otherwise does not return
ReadlineReturns(proc) == proc.pipe # <<>> \/ ~proc.alive

\* lines 94-103: the next process of the for loop, time.sleep after the last
NextProcess(r) ==
    IF r.i < Len(r.processes) THEN [r EXCEPT !.i = @ + 1] ELSE [r EXCEPT !.pc = "check"]

\* lines 94-101: one round of the for loop: at most one line of one process
\* is read and printed with the process's label
RelayRead ==
    LET i    == relay.i
        proc == relay.processes[i]
    IN /\ relay.pc = "read"
       /\ WantsRead(proc) => ReadlineReturns(proc)
       /\ relay' = IF WantsRead(proc) /\ proc.pipe # <<>>
                   THEN NextProcess([relay EXCEPT
                            !.processes[i].pipe = Tail(@),
                            !.out = Append(@, [label |-> i, line |-> Head(proc.pipe)])])
                   ELSE NextProcess(relay)
       /\ UNCHANGED <<vmVars, schedVars, split, ppc>>

\* lines 105-117: Ctrl+C in the read loop: every process is terminated
RelayInterrupt ==
    /\ relay.pc \in {"check", "read"}
    /\ relay' = [relay EXCEPT
                    !.processes = [i \in DOMAIN @ |-> [@[i] EXCEPT !.alive = FALSE]],
                    !.pc = "interrupted"]
    /\ UNCHANGED <<vmVars, schedVars, split, ppc>>

\* a worker process writes a line to its output
WorkerWrite(w) ==
    /\ w \in DOMAIN relay.processes
    /\ relay.processes[w].alive
    /\ relay.processes[w].written < MaxLines
    /\ relay' = [relay EXCEPT
                    !.processes[w].written = @ + 1,
                    !.processes[w].pipe = Append(@, relay.processes[w].written + 1)]
    /\ UNCHANGED <<vmVars, schedVars, split, ppc>>

\* a worker process exits
WorkerExit(w) ==
    /\ w \in DOMAIN relay.processes
    /\ relay.processes[w].alive
    /\ relay' = [relay EXCEPT !.processes[w].alive = FALSE]
    /\ UNCHANGED <<vmVars, schedVars, split, ppc>>

\* ------------------------- run_worker_basic2.py: process_project_complete
NoPpc == [pc |-> "off", code |-> 0, local |-> {}, calls |-> 0, image |-> "none",
          video |-> "none", copy |-> "none", deleted |-> FALSE, ret |-> "none"]

\* what the calls made by process_project_complete can come back with
Outcomes == {"true", "false", "raise"}

\* line 270 (run_scan_loop) / line 335 (main): a call for one project code
PpcCall(code) ==
    /\ ppc.pc \in {"idle", "done"}
    /\ ppc.calls < MaxCalls
    /\ ppc' = [NoPpc EXCEPT !.pc = "step1", !.code = code, !.local = ppc.local,
                            !.calls = ppc.calls + 1]
    /\ UNCHANGED <<vmVars, schedVars, split, relay>>

\* lines 136-142: after process_project_pic_basic_2: a False result returns
\* False, an exception leaves the function, success goes on to the videos
AfterImages(r) ==
    IF r = "true" THEN [pc |-> "step2", ret |-> "none"]
    ELSE IF r = "false" THEN [pc |-> "done", ret |-> "False"]
    ELSE [pc |-> "done", ret |-> "raised"]

\* lines 131-142, step 1: skipped when the local images are complete, else
\* process_project_pic_basic_2, which may copy the project from the master
PpcImages ==
    /\ ppc.pc = "step1"
    /\ \E complete \in BOOLEAN, r \in Outcomes, copied \in BOOLEAN :
          /\ complete => ppc.code \in ppc.local
          /\ ppc' = IF complete
                    THEN [ppc EXCEPT !.image = "skipped", !.pc = "step2"]
                    ELSE [ppc EXCEPT !.image = r,
                                     !.local = IF copied THEN @ \cup {ppc.code} ELSE @,
                                     !.pc = AfterImages(r).pc,
                                     !.ret = AfterImages(r).ret]
    /\ UNCHANGED <<vmVars, schedVars, split, relay>>

\* lines 147-161, step 2: skipped, done, failed or raising; the copy follows
\* in every case
PpcVideos ==
    /\ ppc.pc = "step2"
    /\ \E r \in Outcomes \cup {"skipped"} :
          ppc' = [ppc EXCEPT !.video = r, !.pc = "step3"]
    /\ UNCHANGED <<vmVars, schedVars, split, relay>>

\* lines 167-186: what follows copy_to_visual: the cleanup after a true
\* result, return False after a false result or an exception
AfterCopyAlwaysCleans(r) == [pc |-> "cleanup", ret |-> "none"]

AfterCopy(r) ==
    IF r = "true" THEN [pc |-> "cleanup", ret |-> "none"]
    ELSE [pc |-> "done", ret |-> "False"]

\* lines 167-168, step 3: copy_to_visual(code)
PpcCopy ==
    /\ ppc.pc = "step3"
    /\ \E r \in Outcomes :
          ppc' = [ppc EXCEPT !.copy = r, !.pc = AfterCopy(r).pc, !.ret = AfterCopy(r).ret]
    /\ UNCHANGED <<vmVars, schedVars, split, relay>>

\* lines 171-179: delete_local_project(code) removes the local project
\* directory; return True
PpcCleanup ==
    /\ ppc.pc = "cleanup"
    /\ ppc' = [ppc EXCEPT !.local = @ \ {ppc.code},
                          !.deleted = TRUE, !.pc = "done", !.ret = "True"]
    /\ UNCHANGED <<vmVars, schedVars, split, relay>>

\* ------------------------------------------------------------ specifications
\* VMManager.__init__ followed by the entry of run_interactive (start_all)
VmInit(att, excel, n, lim) ==
    /\ attached = att
    /\ enable_excel = excel
    /\ num_chrome_workers = n
    /\ workers = InitWorkers(excel, n)
    /\ obj = InitObjs(excel, n)
    /\ hist = [i \in 1..Len(InitObjs(excel, n)) |-> NewHist]
    /\ procs = <<>>
    /\ proc_limit = lim
    /\ stop_flag = FALSE
    /\ th = [t \in Threads |-> IF t = 1 THEN Thread("op", "kill", 0, "start_all")
                                ELSE Free]
    /\ cmds = <<>>
    /\ ev = NoEv

InitWith(att, excel, n, lim) ==
    /\ VmInit(att, excel, n, lim)
    /\ SchedInit
    /\ split = NoSplit
    /\ relay = NoRelay
    /\ ppc = NoPpc

\* Attached mode, one chrome slot, unattended: the operator types nothing
\* after start_all; the monitors and the restart threads race on the slot.
Init == InitWith(TRUE, FALSE, 1, MaxProcs)

Next ==
    \/ \E t \in Threads : SwCheck(t)
    \/ \E t \in Threads : SwPopen(t)
    \/ \E t \in Threads : SwIdle(t)
    \/ \E t \in Threads : StTerm(t)
    \/ \E t \in Threads : StClear(t)
    \/ \E t \in Threads : RwEntry(t)
    \/ \E t \in Threads : RwKill(t)
    \/ \E t \in Threads : Kill(t)
    \/ \E t \in Threads : MonStart(t)
    \/ \E t \in Threads : MonLine(t)
    \/ \E t \in Threads : MonEof(t)
    \/ \E p \in Procs : ProcExit(p)

Spec == Init /\ [][Next]_vars

\* The same, with "quit" typed at any moment after start_all.
NextQuit ==
    \/ Next
    \/ CmdQuit

SpecQuit == Init /\ [][NextQuit]_vars

\* The same with one more process, for the runs in which two restarts of the
\* slot each launch one after the first.
InitRace == InitWith(TRUE, FALSE, 1, MaxProcs + 1)

SpecRace == InitRace /\ [][Next]_vars

\* A step of thread t other than the arrival of an output line
ThreadStep(t) ==
    \/ SwCheck(t) \/ SwPopen(t) \/ SwIdle(t) \/ StTerm(t) \/ StClear(t)
    \/ RwEntry(t) \/ RwKill(t) \/ Kill(t) \/ MonStart(t) \/ MonEof(t)

\* Every started thread is scheduled: a thread that can take a step (its
\* call has returned: Popen, wait, sleep, pkill, readline at end of output)
\* eventually takes it.  Nothing is assumed of the processes or the operator.
SpecLive ==
    InitRace /\ [][NextQuit]_vars /\ \A t \in Threads : WF_vars(ThreadStep(t))

\* Detached mode (win32: no pipes, no monitors), the default two chrome slots,
\* no excel worker: the operator alone acts, typing "scale <n>" and "restart".
\* A process's own exit is seen by nothing here (every start follows a stop
\* or a construction), so the processes are left alone.
InitScale == InitWith(FALSE, FALSE, 2, MaxProcs)

NextScale ==
    \/ \E t \in Threads : SwCheck(t)
    \/ \E t \in Threads : SwPopen(t)
    \/ \E t \in Threads : SwIdle(t)
    \/ \E t \in Threads : StTerm(t)
    \/ \E t \in Threads : StClear(t)
    \/ \E t \in Threads : RwEntry(t)
    \/ \E t \in Threads : RwKill(t)
    \/ \E t \in Threads : Kill(t)
    \/ \E n \in 1..MaxChrome : CmdScale(n)
    \/ CmdRestartAll

SpecScale == InitScale /\ [][NextScale]_vars

\* Attached mode, the excel slot and two chrome slots, unattended; output
\* arrives on chrome_2 only, after start_all has returned, and no process
\* exits on its own, so that every change after start_all follows from the
\* lines chrome_2 prints.
InitIso == InitWith(TRUE, TRUE, 2, MaxProcs + 1)

NextIso ==
    \/ \E t \in Threads : SwCheck(t)
    \/ \E t \in Threads : SwPopen(t)
    \/ \E t \in Threads : SwIdle(t)
    \/ \E t \in Threads : StTerm(t)
    \/ \E t \in Threads : StClear(t)
    \/ \E t \in Threads : RwEntry(t)
    \/ \E t \in Threads : RwKill(t)
    \/ \E t \in Threads : Kill(t)
    \/ \E t \in Threads : MonStart(t)
    \/ \E t \in Threads : th[1].pc = "idle" /\ th[t].wid = 2 /\ MonLine(t)
    \/ \E t \in Threads : MonEof(t)

SpecIso == InitIso /\ [][NextIso]_vars

\* Attached mode, the excel slot and one chrome slot, silent workers: the
\* operator types "restart excel" and "restart chrome 1", and the processes
\* exit on their own, which makes their monitors restart them.
InitRestart == InitWith(TRUE, TRUE, 1, MaxProcs)

NextRestart ==
    \/ \E t \in Threads : SwCheck(t)
    \/ \E t \in Threads : SwPopen(t)
    \/ \E t \in Threads : SwIdle(t)
    \/ \E t \in Threads : StTerm(t)
    \/ \E t \in Threads : StClear(t)
    \/ \E t \in Threads : RwEntry(t)
    \/ \E t \in Threads : RwKill(t)
    \/ \E t \in Threads : Kill(t)
    \/ \E t \in Threads : MonStart(t)
    \/ \E t \in Threads : MonEof(t)
    \/ \E p \in Procs : ProcExit(p)
    \/ \E k \in {EXCEL, 1} : CmdRestartOne(k)

SpecRestart == InitRestart /\ [][NextRestart]_vars

\* Attached mode, one chrome slot, the operator typing "restart chrome 1",
\* with restart_worker's increment at the granularity of the interpreter's
\* instructions.  The system gives one process less, and no process exits on
\* its own: the restarts here are the operator's and those the lines trigger.
InitLost == InitWith(TRUE, FALSE, 1, MaxProcs - 1)

NextLost ==
    \/ \E t \in Threads : SwCheck(t)
    \/ \E t \in Threads : SwPopen(t)
    \/ \E t \in Threads : SwIdle(t)
    \/ \E t \in Threads : StTerm(t)
    \/ \E t \in Threads : StClear(t)
    \/ \E t \in Threads : RwLoad(t)
    \/ \E t \in Threads : RwStore(t)
    \/ \E t \in Threads : RwKill(t)
    \/ \E t \in Threads : Kill(t)
    \/ \E t \in Threads : MonStart(t)
    \/ \E t \in Threads : MonLine(t)
    \/ \E t \in Threads : MonEof(t)
    \/ CmdRestartOne(1)

SpecLost == InitLost /\ [][NextLost]_vars

\* Attached mode, one chrome slot, "quit" typed at any moment, and processes
\* whose termination can fail: terminate() or kill() raise, wait() times out.
NextTerm ==
    \/ NextQuit
    \/ \E t \in Threads : StTermOutcomes(t)

SpecTerm == Init /\ [][NextTerm]_vars

\* Attached mode with the "kill" command typed at any prompt.
NextKill ==
    \/ Next
    \/ CmdKill

SpecKill == Init /\ [][NextKill]_vars

\* Detached mode, two chrome slots, and the console: the lines typed at the
\* prompt, end of input and Ctrl-C.
Inputs ==
    {Typed(v, "none", 0) : v \in {"", "status", "restart", "kill", "scale", "quit",
                                  "exit", "q", "help"}}
        \cup {Typed("scale", "int", n) : n \in {0, 1, 2, 3, 11}}
        \cup {Typed("scale", "word", 0), Typed("quit", "word", 0)}

NextConsole ==
    \/ \E t \in Threads : SwCheck(t)
    \/ \E t \in Threads : SwPopen(t)
    \/ \E t \in Threads : SwIdle(t)
    \/ \E t \in Threads : StTerm(t)
    \/ \E t \in Threads : StClear(t)
    \/ \E t \in Threads : RwEntry(t)
    \/ \E t \in Threads : RwKill(t)
    \/ \E t \in Threads : Kill(t)
    \/ \E line \in Inputs : CmdLine(line)
    \/ CmdEof
    \/ CmdInterrupt

SpecConsole == InitScale /\ [][NextConsole]_vars

\* Detached mode, one chrome slot: the operator's "restart chrome 1",
\* "scale" and "quit"; the shell behind a handle ends once "start" has
\* returned (ProcExit).
InitDetached == InitWith(FALSE, FALSE, 1, MaxProcs)

NextDetached ==
    \/ \E t \in Threads : SwCheck(t)
    \/ \E t \in Threads : SwPopen(t)
    \/ \E t \in Threads : SwIdle(t)
    \/ \E t \in Threads : StTerm(t)
    \/ \E t \in Threads : StClear(t)
    \/ \E t \in Threads : RwEntry(t)
    \/ \E t \in Threads : RwKill(t)
    \/ \E t \in Threads : Kill(t)
    \/ \E p \in Procs : ProcExit(p)
    \/ CmdRestartOne(1)
    \/ \E n \in 1..2 : CmdScale(n)
    \/ CmdQuit

SpecDetached == InitDetached /\ [][NextDetached]_vars

\* The scheduler alone: the project discovery enqueues, the workers' sides
\* claim and complete.
NextSched ==
    \/ \E p \in Projects : \E i \in 1..Len(TaskTypes) : Enqueue(p, TaskTypes[i])
    \/ \E kind \in {"excel", "chrome"} : Claim(kind)
    \/ \E p \in Projects : \E success \in BOOLEAN : Complete(p, success)

SpecSched == Init /\ [][NextSched]_vars

\* One call of _split_prompts on any prompt list.
InitSplit ==
    /\ VmInit(TRUE, FALSE, 1, MaxProcs)
    /\ SchedInit
    /\ split \in {[NoSplit EXCEPT !.pc = "call", !.all_prompts = seq] : seq \in PromptLists}
    /\ relay = NoRelay
    /\ ppc = NoPpc

NextSplit == SplitCall

SpecSplit == InitSplit /\ [][NextSplit]_vars

\* One call of run_multi_workers with any argument; the worker processes
\* write up to MaxLines lines each and exit when they choose.
InitRelay ==
    /\ VmInit(TRUE, FALSE, 1, MaxProcs)
    /\ SchedInit
    /\ split = NoSplit
    /\ ppc = NoPpc
    /\ relay \in {[NoRelay EXCEPT !.pc = "spawn", !.num_workers = ClampWorkers(n)] :
                     n \in 0..MaxArg}

NextRelay ==
    \/ RelaySpawn
    \/ RelayCheck
    \/ RelayRead
    \/ RelayInterrupt
    \/ \E w \in 1..5 : WorkerWrite(w)
    \/ \E w \in 1..5 : WorkerExit(w)

SpecRelay == InitRelay /\ [][NextRelay]_vars

\* The read loop is scheduled: a step of run_multi_workers that can be taken
\* (Popen, poll, a readline that returns) is eventually taken.  Nothing is
\* assumed of the worker processes.
SpecRelayLive ==
    InitRelay /\ [][NextRelay]_vars
              /\ WF_vars(RelaySpawn) /\ WF_vars(RelayCheck) /\ WF_vars(RelayRead)

\* Calls of process_project_complete, one after the other, for any project
\* codes, from any set of local project directories.
InitComplete ==
    /\ VmInit(TRUE, FALSE, 1, MaxProcs)
    /\ SchedInit
    /\ split = NoSplit
    /\ relay = NoRelay
    /\ ppc \in {[NoPpc EXCEPT !.pc = "idle", !.local = l] : l \in SUBSET Projects}

NextComplete ==
    \/ \E code \in Projects : PpcCall(code)
    \/ PpcImages
    \/ PpcVideos
    \/ PpcCopy
    \/ PpcCleanup

SpecComplete == InitComplete /\ [][NextComplete]_vars

\* ------------------------------------------------------------------ claims
Registered == {workers[i] : i \in WIDs} \ {NoObj}

\* the live processes spawned for slot object o
AliveOf(o) == {p \in DOMAIN procs : procs[p].alive /\ procs[p].owner = o}

\* no start/stop/restart call is in progress or pending in any thread
AllCallsCompleted ==
    \A t \in Threads :
        th[t].pc \in {"free", "idle", "done", "end", "mon_start", "mon_read"}

\* C1: once every start/stop/restart call has completed, a slot has at most
\* one live process, and a live process of the slot is the slot's handle.
SingleLiveProcess ==
    AllCallsCompleted =>
        \A o \in Registered :
            /\ Cardinality(AliveOf(o)) <= 1
            /\ AliveOf(o) \subseteq {obj[o].process}

\* C2: a start_worker call that finds the slot's process handle alive returns
\* True, spawns nothing and leaves the slot (its handle included) as it was.
IdempotentStart ==
    [][(/\ ev'.type \in {"starting", "start_already"}
        /\ IsAlive(procs, obj[ev'.o].process))
       => (/\ ev'.type = "start_already"
           /\ ev'.ok
           /\ procs' = procs
           /\ obj'[ev'.o] = obj[ev'.o])]_vars

\* C2 witness: a start on a running slot has just returned True
IdempotentStartWitness ==
    /\ ev.type = "start_already"
    /\ ev.ok
    /\ IsAlive(procs, obj[ev.o].process)

\* C3: a stop_worker call that finds a registered slot without a process
\* handle returns True and leaves it STOPPED without a handle, every other
\* field and every process untouched; on a slot that is already STOPPED the
\* call changes nothing (a second stop equals the first).
IdempotentStop ==
    [][(/\ ev'.type \in {"stop_none", "terminate"}
        /\ obj[ev'.o].process = NoProc)
       => (/\ ev'.type = "stop_none"
           /\ ev'.ok
           /\ procs' = procs
           /\ obj'[ev'.o] = [obj[ev'.o] EXCEPT !.status = "stopped"]
           /\ obj[ev'.o].status = "stopped" => obj'[ev'.o] = obj[ev'.o])]_vars

\* C3 witness: stop has just returned True on a slot that was already STOPPED
IdempotentStopWitness ==
    /\ ev.type = "stop_none"
    /\ ev.ok
    /\ ev.k = 1
    /\ obj[ev.o].status = "stopped"
    /\ obj[ev.o].process = NoProc

\* C4: a FATAL line read while error_count = 0 starts exactly one restart
\* thread for the slot and leaves error_count at 0 (below MAX_ERRORS).
FatalBypass ==
    [][(/\ ev'.type = "line"
        /\ ev'.ok
        /\ ev'.o # NoObj
        /\ obj[ev'.o].error_count = 0)
       => (/\ NumThreads(th') = NumThreads(th) + 1
           /\ th'[NumThreads(th')] = Thread("rst", "rw_entry", th'[NumThreads(th')].wid,
                                            "restart")
           /\ workers[th'[NumThreads(th')].wid] = ev'.o
           /\ obj'[ev'.o].error_count = 0)]_vars

\* C4 witness: a FATAL line has just been read at error_count = 0 and the
\* restart thread it started has not run yet
FatalBypassWitness ==
    /\ ev.type = "line"
    /\ ev.ok
    /\ ev.n = 1
    /\ ev.k = 0
    /\ th[NumThreads(th)].kind = "rst"
    /\ th[NumThreads(th)].pc = "rw_entry"

CounterResetOnEverySuccess ==
    ev.type \in {"start_ok", "start_already"} => obj[ev.o].error_count = 0

\* C6 as amended: a start_worker call that launched a process has set
\* error_count to 0 when it returns True, whatever the count was; a call that
\* finds the process running returns True and leaves the count as it was.
CounterReset ==
    /\ ev.type = "start_ok" => ev.ok /\ obj[ev.o].error_count = 0
    /\ ev.type = "start_already" => ev.ok /\ obj[ev.o].error_count = ev.k

\* C6 witness: a launching start has reset a counter that was at the threshold
CounterResetWitness ==
    /\ ev.type = "start_ok"
    /\ ev.k >= MAX_ERRORS
    /\ obj[ev.o].error_count = 0

ShutdownCancelsRestart ==
    [][\A t \in Threads :
          (stop_flag /\ th[t].pc = "rw_sleep") => th'[t].pc # "sw_popen"]_vars

\* the slot objects of the one-slot specifications
InitSlots == DOMAIN InitObjs(FALSE, 1)

\* process p of slot object o, the slot's handle, has just exited on its own
OwnExit(o) ==
    /\ ev.type = "exit"
    /\ ev.o = o
    /\ obj[o].process = ev.p
    /\ ~stop_flag

\* start_worker has just been entered for slot object o
StartAttempt(o) == ev.type \in {"starting", "start_already"} /\ ev.o = o

\* C9: in attached mode, after the handle process of a slot exits on its own
\* before shutdown, the slot is marked STOPPED and start_worker is entered for
\* it, unless shutdown begins first; and a monitor that sees an exit with
\* the stop flag set ends without sleeping into a restart.
ExitRestarts ==
    /\ \A o \in InitSlots :
          OwnExit(o) ~> (stop_flag \/ obj[o].status = "stopped")
    /\ \A o \in InitSlots :
          OwnExit(o) ~> (stop_flag \/ StartAttempt(o))
    /\ [][(ev'.type = "exit_seen" /\ stop_flag) =>
            {t \in Threads : th'[t].pc = "mon_sleep"} \subseteq
            {t \in Threads : th[t].pc = "mon_sleep"}]_vars

\* the arguments of the scale commands typed so far, in order
RECURSIVE ScaleArgs(_)
ScaleArgs(cs) ==
    IF cs = <<>> THEN <<>>
    ELSE (IF Head(cs).c = "scale" THEN <<Head(cs).n>> ELSE <<>>) \o ScaleArgs(Tail(cs))

\* the last three scale commands were scale 5, scale 3, scale 5, the last of
\* them is the last command typed, and it has completed
Scaled535 ==
    LET a == ScaleArgs(cmds)
        k == Len(a)
    IN /\ th[1].pc = "idle"
       /\ k >= 3
       /\ a[k - 2] = 5 /\ a[k - 1] = 3 /\ a[k] = 5
       /\ cmds[Len(cmds)].c = "scale"

\* C10: after scale 5, scale 3, scale 5 the registered chrome ordinals are
\* exactly 1..5, and slots 4 and 5 are objects constructed by the last
\* command, with restart_count 0 and error_count 0.
ScaleIdentity ==
    Scaled535 =>
        /\ {i \in WIDs : i # EXCEL /\ workers[i] # NoObj} = 1..5
        /\ num_chrome_workers = 5
        /\ \A i \in {4, 5} :
              /\ workers[i] > cmds[Len(cmds)].heap
              /\ obj[workers[i]].worker_num = i
              /\ obj[workers[i]].restart_count = 0
              /\ obj[workers[i]].error_count = 0

\* C10 witness: scale 5, scale 3, scale 5 has completed; the removed slot 4
\* object had been started, and the object now at slot 4, whose start
\* failed, carries no start time
ScaleIdentityWitness ==
    /\ Scaled535
    /\ workers[4] # NoObj
    /\ obj[workers[4]].start_time = FALSE
    /\ \E j \in DOMAIN obj :
          /\ j # workers[4]
          /\ obj[j].worker_num = 4
          /\ obj[j].start_time = TRUE

\* the chrome ordinals in the registry
ChromeIds == {i \in WIDs : i # EXCEL /\ workers[i] # NoObj}

\* a step of scale_chrome_workers(n): the command is typed, or the operator's
\* thread is inside one of its loops
ScaleStepArg ==
    IF cmds' # cmds /\ cmds'[Len(cmds')].c = "scale" THEN cmds'[Len(cmds')].n
    ELSE IF th[1].ctx \in {"scale_up", "scale_down"} THEN th[1].arg
    ELSE 0

\* C11: whenever the operator is back at the prompt the chrome ordinals in
\* the registry are exactly 1..num_chrome_workers, which is the argument of
\* the last scale command; when that command was the last one typed, the
\* slots above the old count are new objects on which start_worker has run,
\* every object out of the registry is stopped, without a handle and without
\* a live process; and no step of a scale command touches a slot at or below
\* both the old and the new count.
ScaleRegistry ==
    /\ [](th[1].pc = "idle" =>
            /\ ChromeIds = 1..num_chrome_workers
            /\ ScaleArgs(cmds) # <<>> =>
                  num_chrome_workers = ScaleArgs(cmds)[Len(ScaleArgs(cmds))]
            /\ \A o \in DOMAIN obj \ Registered :
                  /\ obj[o].process = NoProc
                  /\ obj[o].status = "stopped"
                  /\ AliveOf(o) = {}
            /\ (cmds # <<>> /\ cmds[Len(cmds)].c = "scale") =>
                  \A i \in (cmds[Len(cmds)].cur + 1)..cmds[Len(cmds)].n :
                      /\ workers[i] > cmds[Len(cmds)].heap
                      /\ obj[workers[i]].worker_num = i
                      /\ obj[workers[i]].status \in {"idle", "error"}
                      /\ obj[workers[i]].status = "idle" =>
                            IsAlive(procs, obj[workers[i]].process))
    /\ [][\A i \in 1..MaxChrome :
            (i <= ScaleStepArg /\ i <= num_chrome_workers) =>
                /\ workers'[i] = workers[i]
                /\ obj'[workers[i]] = obj[workers[i]]
                /\ AliveOf(workers[i])' = AliveOf(workers[i])]_vars

\* C11 witness: a scale-down has completed and removed a slot whose process
\* was running when the command was typed
ScaleRegistryWitness ==
    /\ th[1].pc = "idle"
    /\ cmds # <<>>
    /\ cmds[Len(cmds)].c = "scale"
    /\ cmds[Len(cmds)].n < cmds[Len(cmds)].cur
    /\ ChromeIds = 1..cmds[Len(cmds)].n
    /\ \E o \in DOMAIN obj \ Registered :
          /\ obj[o].start_time
          /\ obj[o].worker_num > cmds[Len(cmds)].n
          /\ \E p \in DOMAIN procs : procs[p].owner = o /\ ~procs[p].alive

\* C12: with the excel slot and chrome_1, chrome_2 started and output on
\* chrome_2 only, the restart that three RECOVERABLE lines on chrome_2
\* trigger brings chrome_2's restart_count to at least 1, and no step after
\* the third line changes the excel slot or chrome_1 (status, handle,
\* error_count, restart_count) or their processes.
CrossSlotIsolation ==
    /\ []((\E t \in Threads : th[t].kind = "rst" /\ th[t].pc = "end")
             => obj[workers[2]].restart_count >= 1)
    /\ [][(th[1].pc = "idle" /\ hist[workers[2]].trig = 1) =>
            \A i \in {EXCEL, 1} :
                /\ obj'[workers[i]] = obj[workers[i]]
                /\ AliveOf(workers[i])' = AliveOf(workers[i])]_vars

\* C13: a line that matches a FATAL pattern (every such line also matches
\* an ERROR pattern) starts exactly one restart thread for the slot at once,
\* whatever the error_count, and leaves the error_count as it was.
FatalPrecedence ==
    [][(ev'.type = "line" /\ ev'.ok /\ ev'.o # NoObj)
       => (/\ NumThreads(th') = NumThreads(th) + 1
           /\ th'[NumThreads(th')].kind = "rst"
           /\ th'[NumThreads(th')].pc = "rw_entry"
           /\ workers[th'[NumThreads(th')].wid] = ev'.o
           /\ ev'.n = 1
           /\ obj'[ev'.o].error_count = obj[ev'.o].error_count
           /\ hist' = hist)]_vars

\* C13 witness: a FATAL line has just been read at error_count = 2, where
\* counting it would have reached the threshold; the count is still 2
FatalPrecedenceWitness ==
    /\ ev.type = "line"
    /\ ev.ok
    /\ ev.n = 1
    /\ ev.k = MAX_ERRORS - 1
    /\ ev.o # NoObj
    /\ obj[ev.o].error_count = MAX_ERRORS - 1
    /\ th[NumThreads(th)].pc = "rw_entry"

\* C14: a start_worker call that finds no script, or whose Popen raises,
\* returns False with the slot's status ERROR; it spawns no process, leaves
\* the slot's handle and its other fields as they were and starts no thread.
StartFailure ==
    [][ev'.type = "start_fail"
       => (/\ ~ev'.ok
           /\ obj'[ev'.o] = [obj[ev'.o] EXCEPT !.status = "error"]
           /\ procs' = procs
           /\ NumThreads(th') = NumThreads(th)
           /\ \A t \in Threads : th'[t].kind = "mon" => th[t].kind = "mon")]_vars

\* C14 witness: the first start of a slot has just failed: status ERROR, no
\* handle, no process and no monitor thread
StartFailureWitness ==
    /\ ev.type = "start_fail"
    /\ ~ev.ok
    /\ obj[ev.o].status = "error"
    /\ obj[ev.o].process = NoProc
    /\ procs = <<>>
    /\ \A t \in Threads : th[t].kind # "mon"

\* C15: once start_all has returned, a slot whose status is ERROR keeps it
\* in every step other than the entry of a restart_worker call made by the
\* operator's command loop.
ErrorSticky ==
    [][\A o \in DOMAIN obj :
          (/\ th[1].ctx # "start_all"
           /\ obj[o].status = "error"
           /\ obj'[o].status # "error")
          => (/\ ev'.type = "restart"
              /\ ev'.o = o
              /\ th[1].pc = "rw_entry"
              /\ th'[1].pc = "st_term")]_vars

\* the edges of the slot state machine (RUNNING is IDLE in the code)
StatusEdges ==
    {<<"stopped", "starting">>, <<"starting", "idle">>, <<"starting", "error">>,
     <<"idle", "restarting">>, <<"error", "restarting">>,
     <<"restarting", "stopped">>, <<"idle", "stopped">>}

\* C16: a slot object is constructed STOPPED, and every step that changes
\* the status of a slot object changes it along one of the edges
\* STOPPED->STARTING, STARTING->IDLE, STARTING->ERROR, IDLE->RESTARTING,
\* ERROR->RESTARTING, RESTARTING->STOPPED, IDLE->STOPPED.
SlotStateMachine ==
    [][/\ \A o \in DOMAIN obj :
            obj'[o].status # obj[o].status =>
                <<obj[o].status, obj'[o].status>> \in StatusEdges
       /\ \A o \in DOMAIN obj' \ DOMAIN obj : obj'[o].status = "stopped"]_vars

\* C17: in every restart_worker call the sibling cleanup step comes right
\* after stop_worker has returned (the slot STOPPED, without a handle), it
\* runs kill_all_chrome exactly when the slot is a chrome slot, it is followed
\* by the delay and then by the entry of start_worker, and a restart never
\* comes back to it after its start_worker; kill_all_chrome runs in no
\* restart of the excel slot.
RestartSequence ==
    [][/\ \A t \in Threads :
            /\ (th'[t].pc = "rw_kill" /\ th[t].pc # "rw_kill") =>
                  /\ th[t].pc \in {"st_term", "st_clear"}
                  /\ ev'.type \in {"stop_none", "stop_ret"}
                  /\ obj'[ev'.o].process = NoProc
                  /\ obj'[ev'.o].status = "stopped"
            /\ (th[t].pc = "rw_kill" /\ th'[t].pc # "rw_kill") =>
                  /\ th'[t].pc = "rw_sleep"
                  /\ ev'.type = "kill_chrome"
                  /\ ev'.ok = (th[t].wid # EXCEL)
                  /\ procs' = IF th[t].wid # EXCEL
                              THEN KillAllChrome(procs, attached)
                              ELSE procs
            /\ (th[t].pc = "rw_sleep" /\ th'[t].pc # "rw_sleep") =>
                  ev'.type \in {"starting", "start_already", "start_nokey"}
       /\ (ev'.type = "kill_chrome" /\ ev'.ok) =>
            \E t \in Threads :
                /\ th[t].pc \in {"rw_kill", "kill"}
                /\ th'[t].pc # th[t].pc
                /\ th[t].pc = "rw_kill" => th[t].wid # EXCEL]_vars

\* C17 witness: a restart of the excel slot has passed the cleanup step and
\* is in its delay, and a chrome worker's process is still running
RestartSequenceWitness ==
    /\ ev.type = "kill_chrome"
    /\ ~ev.ok
    /\ \E t \in Threads :
          /\ th[t].pc = "rw_sleep"
          /\ th[t].wid = EXCEL
          /\ obj[workers[EXCEL]].restart_count >= 1
    /\ \E p \in DOMAIN procs : procs[p].alive /\ procs[p].chrome

\* C18: a monitor thread is only ever in its read loop (or waiting to hand a
\* restart over, or finished): it is never inside restart_worker, that is in
\* the stop, the cleanup, the delay or the start of a restart; and a line
\* that triggers a restart starts a thread of its own for it.
RestartOffMonitor ==
    /\ [](\A t \in Threads :
            th[t].kind = "mon" =>
                th[t].pc \in {"mon_start", "mon_read", "mon_sleep", "end"})
    /\ [][(ev'.type = "line" /\ ev'.n = 1) =>
            /\ NumThreads(th') = NumThreads(th) + 1
            /\ th'[NumThreads(th')].kind = "rst"]_vars

\* the process monitor thread t was started for: start_worker starts one
\* monitor thread right after each Popen, so the k-th monitor thread belongs
\* to the k-th process
StartedFor(t) == Cardinality({u \in 1..t : th[u].kind = "mon"})

\* the monitor threads blocked in readline on process p
ReadersOf(p) == {t \in Threads : th[t].kind = "mon" /\ th[t].pc = "mon_read" /\ th[t].rp = p}

\* C19: a monitor thread only ever reads the output of the process it was
\* started for, and at most one monitor thread is reading the output of a
\* slot's current process.
OneMonitorPerSlot ==
    /\ \A t \in Threads :
          (th[t].kind = "mon" /\ th[t].pc = "mon_read") => th[t].rp = StartedFor(t)
    /\ \A o \in Registered :
          obj[o].process # NoProc => Cardinality(ReadersOf(obj[o].process)) <= 1

\* C20: the increment of every restart_worker call on a slot takes effect:
\* when a call has stored restart_count, the count is one more than it was
\* just before the store, however many calls on the slot run concurrently.
NoLostIncrement ==
    ev.type = "restart_store" => obj[ev.o].restart_count = ev.k + 1

\* C21: a slot object whose status is STOPPED has no start_time.
StoppedHasNoStartTime ==
    \A o \in DOMAIN obj : obj[o].status = "stopped" => ~obj[o].start_time

\* C22: stop_all has the stop flag set during all its stop_worker calls,
\* reaches kill_all_chrome only when stop_worker has been called for every
\* registry key, and at its return every registered slot is STOPPED without
\* a process handle.
ShutdownOrdering ==
    /\ [](th[1].ctx = "stop_all" => stop_flag)
    /\ []((th[1].ctx = "stop_all" /\ th[1].pc = "kill") => th[1].todo = <<>>)
    /\ [][(th[1].pc = "kill" /\ th[1].ctx = "stop_all" /\ th'[1].pc = "done") =>
            \A o \in Registered :
                /\ obj'[o].status = "stopped"
                /\ obj'[o].process = NoProc]_vars

\* the threads that are inside stop_worker with a handle to stop
Stopping == {t \in Threads : th[t].pc = "st_clear"}

\* C23: whatever terminate(), wait() and kill() do, stop_worker goes on to
\* clear the handle: a stop_worker call on a registered slot returns True
\* with the slot STOPPED and without a handle, and its caller (restart_worker,
\* stop_all) carries on with its next step.
StopNeverFails ==
    [][/\ \A t \in Threads :
            (th[t].pc = "st_term" /\ ev'.type = "terminate" /\ th'[t] # th[t])
                => th'[t].pc = "st_clear"
       /\ \A t \in Stopping :
            th'[t] # th[t] =>
                /\ ev'.type = "stop_ret"
                /\ ev'.ok
                /\ obj'[ev'.o].process = NoProc
                /\ obj'[ev'.o].status = "stopped"
                /\ th'[t].pc \in {"rw_kill", "kill", "st_term"}]_vars

\* C23 witness: stop_worker has just returned True although kill() raised
\* and the process is still running: the slot is STOPPED without a handle
StopNeverFailsWitness ==
    /\ ev.type = "stop_ret"
    /\ ev.ok
    /\ procs[ev.p].alive
    /\ obj[ev.o].process = NoProc
    /\ obj[ev.o].status = "stopped"

\* C24: stop_worker sends kill() exactly when the graceful attempt failed
\* (terminate() raised or wait() timed out); a process that ends within the
\* wait is not sent kill().
TerminationOrder ==
    [][ev'.type = "terminate" =>
          /\ (ev'.n = 1) = (ev'.k = 1)
          /\ ev'.k = 0 => ~procs'[ev'.p].alive]_vars

\* C24 witness: a running process has just ended within the wait that
\* followed terminate(), and no kill() was sent
TerminationOrderWitness ==
    /\ ev.type = "terminate"
    /\ ev.ok
    /\ ev.k = 0
    /\ ev.n = 0
    /\ ~procs[ev.p].alive
    /\ obj[ev.o].process = ev.p

\* C25: a call of kill_all_chrome changes no WorkerInfo field, not the
\* registry, not num_chrome_workers and not the stop flag, and its effect
\* stays outside the slots: no registered slot's running worker process is
\* ended by it.
KillAllFrame ==
    [][(ev'.type = "kill_chrome" /\ ev'.ok) =>
          /\ obj' = obj
          /\ workers' = workers
          /\ num_chrome_workers' = num_chrome_workers
          /\ stop_flag' = stop_flag
          /\ \A o \in Registered : \A p \in AliveOf(o) : procs'[p].alive]_vars

\* the entry of the command log written by the step, if it wrote one
TypedNow == Len(cmds') = Len(cmds) + 1

LastCmd == cmds'[Len(cmds')]

\* the words the console answers to ("restart_one" stands for "restart
\* chrome <k>" and "restart excel"), an empty line, end of input and Ctrl-C
Recognized ==
    {"", "status", "restart", "restart_one", "kill", "scale", "quit", "exit", "q",
     "eof", "interrupt"}

\* C26: a line that is none of the console's commands changes nothing: the
\* registry, every WorkerInfo, num_chrome_workers, the stop flag, the
\* processes and every thread are as before.
UnknownCommandNoChange ==
    [][(TypedNow /\ LastCmd.c \notin Recognized) =>
          UNCHANGED <<workers, obj, num_chrome_workers, stop_flag, procs, th>>]_vars

\* C26 witness: "help" has just been typed while a chrome slot is running
UnknownCommandWitness ==
    /\ ev.type = "cmd"
    /\ cmds # <<>>
    /\ cmds[Len(cmds)].c = "help"
    /\ \E o \in Registered : obj[o].process # NoProc /\ procs[obj[o].process].alive
    /\ ~stop_flag

\* the chrome slots of the registry
NumChromeSlots == Cardinality({i \in 1..MaxChrome : workers[i] # NoObj})

\* C27: scale_chrome_workers is entered only by "scale <n>" with 1 <= n <= 10;
\* a "scale" line with any other argument leaves the registry, the slots and
\* num_chrome_workers as they were; so the number of chrome slots and
\* num_chrome_workers stay within 1..10.
ScaleRange ==
    /\ [](NumChromeSlots \in 1..10 /\ num_chrome_workers \in 1..10)
    /\ [][(TypedNow /\ LastCmd.c = "scale" /\ LastCmd.n \notin 1..10) =>
             UNCHANGED <<workers, obj, num_chrome_workers, th>>]_vars
    /\ [][(th[1].ctx \notin {"scale_up", "scale_down"}
             /\ th'[1].ctx \in {"scale_up", "scale_down"}) =>
             (TypedNow /\ LastCmd.c = "scale" /\ LastCmd.n \in 1..10)]_vars

\* C27 witness: after an accepted "scale 3", "scale 11" has just been
\* refused and the three chrome slots are still there
ScaleRangeWitness ==
    /\ ev.type = "cmd"
    /\ Len(cmds) >= 2
    /\ cmds[Len(cmds)] = Cmd("scale", 11)
    /\ NumChromeSlots = 3
    /\ num_chrome_workers = 3
    /\ th[1].pc = "idle"

\* the ways the command loop ends
Ends == {"quit", "exit", "q", "eof"}

Ended == \E i \in 1..Len(cmds) : cmds[i].c \in Ends

\* C28: stop_all is entered exactly when the command loop ends (quit, exit,
\* q, end of input), at that step, with the stop flag set; once the loop has
\* ended no further command is read and stop_all is not entered again.
ShutdownOnce ==
    [][LET enters == th[1].ctx # "stop_all" /\ th'[1].ctx = "stop_all"
       IN /\ (TypedNow /\ LastCmd.c \in Ends) <=> enters
          /\ enters => stop_flag'
          /\ Ended => (cmds' = cmds /\ ~enters)]_vars

\* C28 witness: the loop has ended by end of input after an earlier
\* command, and stop_all has run to its end
ShutdownOnceWitness ==
    /\ Len(cmds) >= 2
    /\ cmds[Len(cmds)].c = "eof"
    /\ th[1].pc = "done"
    /\ stop_flag
    /\ \A o \in Registered : obj[o].status = "stopped"

\* the running worker processes launched for slot object o: the windows
\* opened by "start" (detached), the processes behind the handles (attached)
LiveWorkers(o) ==
    {p \in DOMAIN procs :
        procs[p].owner = o /\ (IF attached THEN procs[p].alive ELSE procs[p].window)}

\* C29: in detached mode no monitor or restart thread exists, a slot's
\* restart_count and process handle change only while the operator's thread
\* is executing start_all or a command, and once every call has completed a
\* slot has at most one running worker process.
DetachedManualOnly ==
    /\ [](\A t \in Threads : t # 1 => th[t].pc = "free")
    /\ [][\A o \in DOMAIN obj :
             (o \in DOMAIN obj' /\ (obj'[o].restart_count # obj[o].restart_count
                                     \/ obj'[o].process # obj[o].process))
                => th[1].pc \notin {"idle", "done"}]_vars
    /\ [](AllCallsCompleted =>
            \A o \in Registered : Cardinality(LiveWorkers(o)) <= 1)

\* C30: every chrome worker launched for worker_num k while the registry
\* holds N chrome slots is handed the shard identity (k, N), with 1 <= k <= N,
\* and the excel worker is launched with "--loop".
LaunchContract ==
    [][ev'.type = "spawn" =>
         LET p == procs'[ev'.p]
             k == obj'[ev'.o].worker_num
         IN IF k = EXCEL
            THEN p.args = <<"--loop">>
            ELSE /\ 1 <= k /\ k <= NumChromeSlots
                 /\ [index |-> k, total |-> NumChromeSlots] \in p.shard]_vars

\* the RUNNING tasks of project p, wherever the scheduler holds them
RunningOf(p) ==
    {a \in ActiveSet(active_tasks) : a.project_code = p /\ a.status = "running"}
        \cup {task_queue[i] : i \in {j \in 1..Len(task_queue) :
                                    /\ task_queue[j].project_code = p
                                    /\ task_queue[j].status = "running"}}

RunningExcel == {a \in ActiveSet(active_tasks) : a.task_type = "excel"}

\* C31: at most one task per project code is RUNNING and at most one excel
\* (DOCUMENT) task is RUNNING in all; a claim makes a task RUNNING only for a
\* project that had no RUNNING task and, for an excel task, only when no
\* excel task was RUNNING.
TaskSerialization ==
    /\ [](\A p \in Projects : Cardinality(RunningOf(p)) <= 1)
    /\ [](Cardinality(RunningExcel) <= 1)
    /\ [][\A p \in Projects :
             (active_tasks'[p] # active_tasks[p] /\ active_tasks'[p] # NoTask) =>
                /\ active_tasks[p] = NoTask
                /\ active_tasks'[p].project_code = p
                /\ active_tasks'[p].status = "running"
                /\ active_tasks'[p].task_type = "excel" => RunningExcel = {}]_vars

\* C31 witness: project 1's excel task is RUNNING while its image task and
\* project 2's excel task wait in the queue
TaskSerializationWitness ==
    /\ active_tasks[1].task_type = "excel"
    /\ active_tasks[2] = NoTask
    /\ \E i \in 1..Len(task_queue) : task_queue[i] = Task(1, "image")
    /\ \E i \in 1..Len(task_queue) : task_queue[i] = Task(2, "excel")

\* the tasks of project p at stage task_type that are PENDING in the queue
PendingOf(queue, p, task_type) ==
    {i \in 1..Len(queue) : /\ queue[i].project_code = p
                            /\ queue[i].task_type = task_type
                            /\ queue[i].status = "pending"}

OtherLineNoAction ==
    [][(ev'.type = "line" /\ ev'.line = "other" /\ ev'.o # NoObj) =>
          /\ obj' = obj
          /\ workers' = workers
          /\ procs' = procs
          /\ ev'.n = 0
          /\ NumThreads(th') = NumThreads(th)]_vars

\* C33 witness: a line of neither class has just been read while the slot's
\* error_count was 2, and the count is still 2
OtherLineWitness ==
    /\ ev.type = "line"
    /\ ev.line = "other"
    /\ ev.o # NoObj
    /\ ev.k = 2
    /\ obj[ev.o].error_count = 2
    /\ obj[ev.o].status = "idle"

\* the elements of a list
Range(seq) == {seq[i] : i \in DOMAIN seq}

\* C34: the two lists returned by _split_prompts hold every input prompt
\* exactly once between them; the nv prompts are in the first and the loc
\* prompts in the second; the first holds the odd-numbered scenes and the
\* second the even-numbered scenes.
SplitByParity ==
    split.pc = "done" =>
        /\ Range(split.chrome1) \cup Range(split.chrome2) = Range(split.all_prompts)
        /\ Len(split.chrome1) + Len(split.chrome2) = Len(split.all_prompts)
        /\ \A p \in Range(split.all_prompts) :
              /\ p.kind = "nv" => p \in Range(split.chrome1)
              /\ p.kind = "loc" => p \in Range(split.chrome2)
              /\ (p.kind = "s" /\ p.num % 2 = 1) => p \in Range(split.chrome1)
              /\ (p.kind = "s" /\ p.num % 2 = 0) => p \in Range(split.chrome2)

\* the processes ever launched for slot object o (its incarnations)
SpawnedFor(o) == {p \in DOMAIN procs : procs[p].owner = o}

\* C35: unattended, every restart of a slot is triggered by the events of
\* one of its processes and each process triggers at most one, so the slot's
\* restart_count never exceeds the number of processes launched for it; and
\* the restart a monitor runs for the process it reads stops no other
\* running process.
OneRestartPerIncarnation ==
    /\ [](\A o \in DOMAIN obj : obj[o].restart_count <= Cardinality(SpawnedFor(o)))
    /\ [][\A t \in Threads :
             (/\ th[t].kind = "mon"
              /\ th[t].pc = "st_term"
              /\ th'[t] # th[t]
              /\ ev'.type = "terminate")
                => (ev'.p = th[t].rp \/ ~procs[ev'.p].alive)]_vars

\* C36: when no start, stop or restart call is in progress, a registered
\* slot that is IDLE holds a process handle, and one without a handle is
\* STOPPED or ERROR.
StatusHandleConsistent ==
    AllCallsCompleted =>
        \A o \in Registered :
            /\ obj[o].status = "idle" => obj[o].process # NoProc
            /\ obj[o].process = NoProc => obj[o].status \in {"stopped", "error"}

\* ------------------------------------------------------------ removed slots
\* Attached mode, two chrome slots, silent workers that do not exit on their
\* own: the operator types "scale 1" and "scale 2", so that a slot is removed,
\* and one is created again under the same id, while the monitor of the
\* removed slot reads the end of its process's output.
InitRemoved == InitWith(TRUE, FALSE, 2, MaxProcs + 1)

NextRemoved ==
    \/ \E t \in Threads : SwCheck(t)
    \/ \E t \in Threads : SwPopen(t)
    \/ \E t \in Threads : SwIdle(t)
    \/ \E t \in Threads : StTerm(t)
    \/ \E t \in Threads : StClear(t)
    \/ \E t \in Threads : RwEntry(t)
    \/ \E t \in Threads : RwKill(t)
    \/ \E t \in Threads : Kill(t)
    \/ \E t \in Threads : MonStart(t)
    \/ \E t \in Threads : MonEof(t)
    \/ \E n \in 1..2 : CmdScale(n)

SpecRemoved == InitRemoved /\ [][NextRemoved]_vars

\* C37 (part 1): a process is started only for a slot object that is
\* registered when the process is started.
SpawnOnlyRegistered ==
    [][ev'.type = "spawn" => ev'.o \in Registered']_vars

\* C37 (part 2): once every call has completed, no slot object that was
\* removed from the registry owns a live process.
RemovedHasNoLive ==
    AllCallsCompleted =>
        \A o \in 1..Len(obj) : o \notin Registered => AliveOf(o) = {}

\* C37 (part 3): the restart a monitor makes after its slot's process has
\* exited is a restart of the slot object the monitor watches.
MonitorRestartsOwn ==
    [][\A t \in Threads :
          (th[t].kind = "mon" /\ th'[t] # th[t] /\ ev'.type = "restart")
              => ev'.o = th[t].m]_vars

\* C37: removed slots stay dead: no process is started for a slot object
\* that is no longer registered, no removed slot object is left with a live
\* process, and a monitor's pending restart acts on the slot object it
\* watches, never on another one registered later under the same id.
RemovedSlotsStayDead ==
    /\ SpawnOnlyRegistered
    /\ []RemovedHasNoLive
    /\ MonitorRestartsOwn

\* the lines worker w has written
LinesOf(w) == 1..relay.processes[w].written

\* line k of worker w has been printed with the worker's label
Printed(w, k) == \E j \in DOMAIN relay.out : relay.out[j] = [label |-> w, line |-> k]

\* C38: when run_multi_workers returns from its read loop, every line every
\* worker process wrote has been printed with that worker's label.
RelaysAllOutput ==
    relay.pc = "ret" =>
        \A w \in DOMAIN relay.processes : \A k \in LinesOf(w) : Printed(w, k)

\* C38 (no holding back): a line a worker has written is eventually printed
\* or the call is interrupted, whatever the other workers do.
NotHeldBack ==
    \A w \in 1..2 : \A k \in 1..MaxLines :
        (w \in DOMAIN relay.processes /\ k \in LinesOf(w))
            ~> (Printed(w, k) \/ relay.pc = "interrupted")

\* C38 (termination): once every worker process has exited, the read loop
\* ends.
RelayTerminates ==
    (relay.pc \in {"check", "read"} /\ AllDone(relay.processes))
        ~> (relay.pc \in {"ret", "interrupted"})

=============================================================================
